---- MODULE Spec2Model ----
(***************************************************************************)
(* Model of src/interview_agent.py: the command-line interview agent that  *)
(* asks a fixed opening question, runs up to five "why" rounds against a   *)
(* chat session, asks the model for a PRD and saves it to PRD.md.          *)
(*                                                                         *)
(* Strings are sequences of tokens (single characters, or one token for a  *)
(* long fixed literal of the source).  The program is one sequential       *)
(* process; pc is its position, one value per statement that touches the   *)
(* history, the console, standard input, the network or the file.          *)
(***************************************************************************)
EXTENDS Integers, Sequences, FiniteSets, TLC

(* ---------------- bounds of the model ---------------- *)

\* longest run of whitespace the service puts around a question
MaxPad == 1

\* longest document text the service returns
MaxDoc == 2

(* ---------------- program constants ---------------- *)

\* for i in range(5)
NumRounds == 5

\* sys.exit(1)
MissingKeyStatus == 1

\* main() returns normally: the interpreter exits with status 0
NormalStatus == 0

\* exit_code while the process is still running
Running == -1

\* ['exit', 'quit', 'done']
ExitKeywords == { <<"e","x","i","t">>, <<"q","u","i","t">>, <<"d","o","n","e">> }

\* the default filename="PRD.md" is the only file the program touches
NoFile == [exists |-> FALSE, content |-> <<>>]

OldFile == [exists |-> TRUE, content |-> <<"o","l","d">>]

Whitespace == {" ", "\n", "\t"}

(* ---------------- pure functions ---------------- *)

\* str.lower() on the characters the inputs are drawn from
LowerChar(c) ==
    CASE c = "E" -> "e" [] c = "X" -> "x" [] c = "I" -> "i" [] c = "T" -> "t"
      [] c = "Q" -> "q" [] c = "U" -> "u" [] c = "D" -> "d" [] c = "O" -> "o"
      [] c = "N" -> "n" [] c = "K" -> "k"
      [] OTHER -> c

Lower(s) == [k \in 1..Len(s) |-> LowerChar(s[k])]

IsExitInputCaseSensitive(s) == s \in ExitKeywords

\* user_input.lower() in ['exit', 'quit', 'done']
IsExitInput(s) == Lower(s) \in ExitKeywords

RECURSIVE LStrip(_)
LStrip(s) == IF s # <<>> /\ Head(s) \in Whitespace THEN LStrip(Tail(s)) ELSE s

RECURSIVE RStrip(_)
RStrip(s) ==
    IF s # <<>> /\ s[Len(s)] \in Whitespace THEN RStrip(SubSeq(s, 1, Len(s) - 1)) ELSE s

\* str.strip()
Strip(s) == RStrip(LStrip(s))

\* f"System: {system_instruction}"
SystemEntry == <<"System: ", "You are an expert Product Manager ...">>

\* initial_question and f"Agent: {initial_question}"
initial_question == <<"To start, what is the product idea or the problem you are trying to solve?">>

AgentEntry(q) == <<"Agent: ">> \o q

UserEntry(a) == <<"User: ">> \o a

\* the prompt of one round: f"The user just said: '{user_input}'. ..."
RoundPrompt(a) == <<"The user just said: '">> \o a \o <<"'. Previous conversation context is implied. ...">>

RECURSIVE Join(_, _)
\* sep.join(entries)
Join(sep, entries) ==
    IF entries = <<>> THEN <<>>
    ELSE IF Len(entries) = 1 THEN entries[1]
    ELSE entries[1] \o sep \o Join(sep, Tail(entries))

TranscriptWithoutSystem(h) == Join(<<"\n">>, Tail(h))

\* transcript = "\n".join(self.conversation_history)
Transcript(h) == Join(<<"\n">>, h)

PrdHead == <<"Based on the following interview transcript, ... TRANSCRIPT:\n">>

PrdTail == <<"\n\nREQUIREMENTS:\n1. Title & Overview\n ... 8. Output strictly in Markdown.">>

\* prd_prompt
PrdPrompt(h) == PrdHead \o Transcript(h) \o PrdTail

(* ---------------- inputs ---------------- *)

\* what os.getenv("GOOGLE_API_KEY") can find: unset, set but empty, set
Environments ==
    { [present |-> FALSE, value |-> <<>>],
      [present |-> TRUE, value |-> <<>>],
      [present |-> TRUE, value |-> <<"k">>] }

\* lines the user may type
Answers ==
    { <<"o","k">>, <<"e","x","i","t"," ">>,
      <<"e","x","i","t">>, <<"Q","u","i","t">>, <<"D","O","N","E">> }

QuestionBody == <<"W","h","y"," ","s","o","?">>

Pad(c, n) == [k \in 1..n |-> c]

\* response.text of a conversational call
RawQuestions ==
    { Pad(" ", a) \o QuestionBody \o Pad("\n", b) : a \in 0..MaxPad, b \in 0..MaxPad }

\* response.text of the document call
Documents == { Pad("#", n) : n \in 0..MaxDoc }

InitialFiles == {NoFile, OldFile}

(* ---------------- state ---------------- *)

VARIABLES
    pc,                   \* position of the process
    env,                  \* the environment's GOOGLE_API_KEY
    conversation_history, \* self.conversation_history
    user_input,           \* local of start_interview
    i,                    \* loop variable of start_interview
    prompt,               \* last prompt sent to the chat session
    question,             \* local of start_interview
    prd_prompt,           \* prompt sent to model.generate_content
    prd_content,          \* local of main
    file,                 \* PRD.md on disk
    console,              \* messages printed, in order
    exit_code,            \* exit status of the process (Running before it ends)
    err,                  \* kind of the exception raised in this run
    caughtAt,             \* the function whose except clause caught it
    chatCalls,            \* chat.send_message calls issued
    genCalls,             \* model.generate_content calls issued
    typed,                \* lines read from standard input, in order
    fileOpens,            \* times PRD.md was opened for writing
    rounds                \* iterations of the loop body run to their end

vars == << pc, env, conversation_history, user_input, i, prompt, question,
           prd_prompt, prd_content, file, console, exit_code, err, caughtAt,
           chatCalls, genCalls, typed, fileOpens, rounds >>

interview == << conversation_history, user_input, i, prompt, question, rounds >>

counters == << chatCalls, genCalls, typed, fileOpens >>

Init ==
    /\ pc = "configure_genai"
    /\ env \in Environments
    /\ conversation_history = <<>>
    /\ user_input = <<>>
    /\ i = 0
    /\ prompt = <<>>
    /\ question = <<>>
    /\ prd_prompt = <<>>
    /\ prd_content = <<>>
    /\ file \in InitialFiles
    /\ console = <<>>
    /\ exit_code = Running
    /\ err = "none"
    /\ caughtAt = "none"
    /\ chatCalls = 0
    /\ genCalls = 0
    /\ typed = <<>>
    /\ fileOpens = 0
    /\ rounds = 0

(* ---------------- helpers of the actions ---------------- *)

MissingNever(e) == FALSE

\* if not api_key: None and the empty string are both falsy
Missing(e) == ~e.present \/ e.value = <<>>

WriteFileEmpty(f, content) == [exists |-> TRUE, content |-> <<>>]

WriteFileAppending(f, content) == [exists |-> TRUE, content |-> f.content \o content]

\* open(filename, "w") truncates, f.write(content) writes the text
WriteFile(f, content) == [exists |-> TRUE, content |-> content]

\* what is on disk when the write stops after the first n tokens
PartialFile(content, n) == [exists |-> TRUE, content |-> SubSeq(content, 1, n)]

RecordAtFront(h, e) == <<e>> \o h

\* self.conversation_history.append(entry)
Record(h, e) == Append(h, e)

\* statements inside main's try block
TryPcs ==
    { "start_interview", "ask_initial", "read_initial", "record_initial", "loop",
      "send_message", "show_question", "read_answer", "record_answer", "exit_check",
      "generate_prd", "save_prd" }

\* main returns (normally or through one of its except clauses): exit status 0
Finish ==
    /\ pc' = "done"
    /\ exit_code' = NormalStatus

\* except KeyboardInterrupt / except Exception as e, in main
MainExcept(kind) ==
    /\ err' = kind
    /\ caughtAt' = "main"
    /\ console' = Append(console, IF kind = "interrupt" THEN "interrupted" ELSE "error")
    /\ Finish

(* ---------------- startup ---------------- *)

\* configure_genai with no usable key: two messages, sys.exit(1)
ConfigureMissing ==
    /\ pc = "configure_genai"
    /\ Missing(env)
    /\ console' = console \o <<"no_key", "hint">>
    /\ pc' = "done"
    /\ exit_code' = MissingKeyStatus
    /\ UNCHANGED << env, interview, prd_prompt, prd_content, file, err, caughtAt, counters >>

\* configure_genai with a key: genai.configure, no call to the service
ConfigureOk ==
    /\ pc = "configure_genai"
    /\ ~Missing(env)
    /\ pc' = "construct"
    /\ UNCHANGED << env, interview, prd_prompt, prd_content, file, console, exit_code,
                    err, caughtAt, counters >>

\* ProductInterviewAgent.__init__
Construct ==
    /\ pc = "construct"
    /\ conversation_history' = <<>>
    /\ pc' = "start_interview"
    /\ UNCHANGED << env, user_input, i, prompt, question, rounds, prd_prompt, prd_content,
                    file, console, exit_code, err, caughtAt, counters >>

(* ---------------- start_interview ---------------- *)

\* banner, then the system instruction goes into the history
AppendSystem ==
    /\ pc = "start_interview"
    /\ console' = Append(console, "banner")
    /\ conversation_history' = Record(conversation_history, SystemEntry)
    /\ pc' = "ask_initial"
    /\ UNCHANGED << env, user_input, i, prompt, question, rounds, prd_prompt, prd_content,
                    file, exit_code, err, caughtAt, counters >>

\* the fixed opening question is printed and recorded
AskInitial ==
    /\ pc = "ask_initial"
    /\ console' = Append(console, "question")
    /\ conversation_history' = Record(conversation_history, AgentEntry(initial_question))
    /\ pc' = "read_initial"
    /\ UNCHANGED << env, user_input, i, prompt, question, rounds, prd_prompt, prd_content,
                    file, exit_code, err, caughtAt, counters >>

\* user_input = input(...)
ReadLine(next) ==
    /\ \E a \in Answers :
          /\ user_input' = a
          /\ typed' = Append(typed, a)
    /\ pc' = next
    /\ UNCHANGED << env, conversation_history, i, prompt, question, rounds, prd_prompt,
                    prd_content, file, console, exit_code, err, caughtAt, chatCalls,
                    genCalls, fileOpens >>

ReadInitial == pc = "read_initial" /\ ReadLine("record_initial")

\* input() raises EOFError when standard input is closed
ReadEOF ==
    /\ pc \in {"read_initial", "read_answer"}
    /\ MainExcept("eof")
    /\ UNCHANGED << env, interview, prd_prompt, prd_content, file, counters >>

RecordInitialChecked ==
    /\ pc = "record_initial"
    /\ conversation_history' = Record(conversation_history, UserEntry(user_input))
    /\ pc' = IF IsExitInput(user_input) THEN "generate_prd" ELSE "loop"
    /\ UNCHANGED << env, user_input, i, prompt, question, rounds, prd_prompt, prd_content,
                    file, console, exit_code, err, caughtAt, counters >>

\* the first answer is recorded; the for loop follows, no exit check
RecordInitial ==
    /\ pc = "record_initial"
    /\ conversation_history' = Record(conversation_history, UserEntry(user_input))
    /\ pc' = "loop"
    /\ UNCHANGED << env, user_input, i, prompt, question, rounds, prd_prompt, prd_content,
                    file, console, exit_code, err, caughtAt, counters >>

\* for i in range(5): i here is the index of the next iteration
LoopHead ==
    /\ pc = "loop"
    /\ pc' = IF i < NumRounds THEN "send_message" ELSE "generate_prd"
    /\ UNCHANGED << env, interview, prd_prompt, prd_content, file, console, exit_code,
                    err, caughtAt, counters >>

\* response = self.chat.send_message(prompt); question = response.text.strip()
SendMessage ==
    /\ pc = "send_message"
    /\ prompt' = RoundPrompt(user_input)
    /\ chatCalls' = chatCalls + 1
    /\ \E raw \in RawQuestions : question' = Strip(raw)
    /\ pc' = "show_question"
    /\ UNCHANGED << env, conversation_history, user_input, i, rounds, prd_prompt,
                    prd_content, file, console, exit_code, err, caughtAt, genCalls,
                    typed, fileOpens >>

SendMessageFailsSwallowed ==
    /\ pc = "send_message"
    /\ prompt' = RoundPrompt(user_input)
    /\ chatCalls' = chatCalls + 1
    /\ err' = "chat"
    /\ console' = Append(console, "error")
    /\ pc' = "generate_prd"
    /\ UNCHANGED << env, conversation_history, user_input, i, question, rounds, prd_prompt,
                    prd_content, file, exit_code, caughtAt, genCalls, typed, fileOpens >>

\* the call (or reading response.text) raises: the exception leaves start_interview
SendMessageFails ==
    /\ pc = "send_message"
    /\ prompt' = RoundPrompt(user_input)
    /\ chatCalls' = chatCalls + 1
    /\ MainExcept("chat")
    /\ UNCHANGED << env, conversation_history, user_input, i, question, rounds, prd_prompt,
                    prd_content, file, genCalls, typed, fileOpens >>

\* the question is printed and recorded
ShowQuestion ==
    /\ pc = "show_question"
    /\ console' = Append(console, "question")
    /\ conversation_history' = Record(conversation_history, AgentEntry(question))
    /\ pc' = "read_answer"
    /\ UNCHANGED << env, user_input, i, prompt, question, rounds, prd_prompt, prd_content,
                    file, exit_code, err, caughtAt, counters >>

ReadAnswer == pc = "read_answer" /\ ReadLine("record_answer")

RecordAnswerUnlessExit ==
    /\ pc = "record_answer"
    /\ conversation_history' =
           IF IsExitInput(user_input) THEN conversation_history
           ELSE Record(conversation_history, UserEntry(user_input))
    /\ pc' = "exit_check"
    /\ UNCHANGED << env, user_input, i, prompt, question, rounds, prd_prompt, prd_content,
                    file, console, exit_code, err, caughtAt, counters >>

\* the answer of the round is recorded
RecordAnswer ==
    /\ pc = "record_answer"
    /\ conversation_history' = Record(conversation_history, UserEntry(user_input))
    /\ pc' = "exit_check"
    /\ UNCHANGED << env, user_input, i, prompt, question, rounds, prd_prompt, prd_content,
                    file, console, exit_code, err, caughtAt, counters >>

\* if user_input.lower() in [...]: print, break.  The iteration ends here.
ExitCheck ==
    /\ pc = "exit_check"
    /\ rounds' = rounds + 1
    /\ IF IsExitInput(user_input)
         THEN /\ console' = Append(console, "ending_early")
              /\ pc' = "generate_prd"
              /\ i' = i
         ELSE /\ console' = console
              /\ pc' = "loop"
              /\ i' = i + 1
    /\ UNCHANGED << env, conversation_history, user_input, prompt, question, prd_prompt,
                    prd_content, file, exit_code, err, caughtAt, counters >>

(* ---------------- generate_prd ---------------- *)

\* one generate_content call on the prompt built from the whole history
GeneratePrd ==
    /\ pc = "generate_prd"
    /\ console' = Append(console, "generating")
    /\ prd_prompt' = PrdPrompt(conversation_history)
    /\ genCalls' = genCalls + 1
    /\ \E d \in Documents : prd_content' = d
    /\ pc' = "save_prd"
    /\ UNCHANGED << env, interview, file, exit_code, err, caughtAt, chatCalls, typed,
                    fileOpens >>

\* the call (or reading response.text) raises
GeneratePrdFails ==
    /\ pc = "generate_prd"
    /\ prd_prompt' = PrdPrompt(conversation_history)
    /\ genCalls' = genCalls + 1
    /\ err' = "generate"
    /\ caughtAt' = "main"
    /\ console' = console \o <<"generating", "error">>
    /\ Finish
    /\ UNCHANGED << env, interview, prd_content, file, chatCalls, typed, fileOpens >>

(* ---------------- save_prd ---------------- *)

\* the write succeeds: success message, main returns
SavePrd ==
    /\ pc = "save_prd"
    /\ file' = WriteFile(file, prd_content)
    /\ fileOpens' = fileOpens + 1
    /\ console' = Append(console, "saved")
    /\ Finish
    /\ UNCHANGED << env, interview, prd_prompt, prd_content, err, caughtAt, chatCalls,
                    genCalls, typed >>

SavePrdOpenFailsRaising ==
    /\ pc = "save_prd"
    /\ MainExcept("write")
    /\ UNCHANGED << env, interview, prd_prompt, prd_content, file, counters >>

\* open() raises (e.g. permission denied): caught in save_prd, which returns
SavePrdOpenFails ==
    /\ pc = "save_prd"
    /\ err' = "write"
    /\ caughtAt' = "save_prd"
    /\ console' = Append(console, "save_error")
    /\ Finish
    /\ UNCHANGED << env, interview, prd_prompt, prd_content, file, counters >>

\* f.write or the close raises after open() truncated the file
SavePrdWriteFails ==
    /\ pc = "save_prd"
    /\ \E n \in 0..Len(prd_content) : file' = PartialFile(prd_content, n)
    /\ fileOpens' = fileOpens + 1
    /\ err' = "write"
    /\ caughtAt' = "save_prd"
    /\ console' = Append(console, "save_error")
    /\ Finish
    /\ UNCHANGED << env, interview, prd_prompt, prd_content, chatCalls, genCalls,
                    typed >>

(* ---------------- keyboard interruption ---------------- *)

\* KeyboardInterrupt at a statement of the try block, the file untouched
Interrupt ==
    /\ pc \in TryPcs
    /\ MainExcept("interrupt")
    /\ UNCHANGED << env, interview, prd_prompt, prd_content, file, counters >>

\* KeyboardInterrupt while a call to the service is under way: the call was issued
InterruptCall ==
    /\ \/ /\ pc = "send_message"
          /\ prompt' = RoundPrompt(user_input)
          /\ chatCalls' = chatCalls + 1
          /\ UNCHANGED << prd_prompt, genCalls >>
          /\ console' = Append(console, "interrupted")
       \/ /\ pc = "generate_prd"
          /\ prd_prompt' = PrdPrompt(conversation_history)
          /\ genCalls' = genCalls + 1
          /\ UNCHANGED << prompt, chatCalls >>
          /\ console' = console \o <<"generating", "interrupted">>
    /\ err' = "interrupt"
    /\ caughtAt' = "main"
    /\ Finish
    /\ UNCHANGED << env, conversation_history, user_input, i, question, rounds, prd_content,
                    file, typed, fileOpens >>

\* KeyboardInterrupt inside save_prd's with block: except Exception lets it through
InterruptWrite ==
    /\ pc = "save_prd"
    /\ \E n \in 0..Len(prd_content) : file' = PartialFile(prd_content, n)
    /\ fileOpens' = fileOpens + 1
    /\ MainExcept("interrupt")
    /\ UNCHANGED << env, interview, prd_prompt, prd_content, chatCalls, genCalls,
                    typed >>

(* ---------------- specification ---------------- *)

Next ==
    \/ ConfigureMissing
    \/ ConfigureOk
    \/ Construct
    \/ AppendSystem
    \/ AskInitial
    \/ ReadInitial
    \/ ReadEOF
    \/ RecordInitial
    \/ LoopHead
    \/ SendMessage
    \/ SendMessageFails
    \/ ShowQuestion
    \/ ReadAnswer
    \/ RecordAnswer
    \/ ExitCheck
    \/ GeneratePrd
    \/ GeneratePrdFails
    \/ SavePrd
    \/ SavePrdOpenFails
    \/ SavePrdWriteFails
    \/ Interrupt
    \/ InterruptCall
    \/ InterruptWrite

Spec == Init /\ [][Next]_vars

TypeOK ==
    /\ pc \in TryPcs \cup {"configure_genai", "construct", "done"}
    /\ env \in Environments
    /\ i \in 0..NumRounds
    /\ rounds \in 0..NumRounds
    /\ exit_code \in {Running, NormalStatus, MissingKeyStatus}
    /\ err \in {"none", "chat", "generate", "write", "interrupt", "eof"}
    /\ caughtAt \in {"none", "main", "save_prd"}
    /\ file.exists \in BOOLEAN

(* ---------------- vocabulary of the properties ---------------- *)

UpperChar(c) ==
    CASE c = "e" -> "E" [] c = "x" -> "X" [] c = "i" -> "I" [] c = "t" -> "T"
      [] c = "q" -> "Q" [] c = "u" -> "U" [] c = "d" -> "D" [] c = "o" -> "O"
      [] c = "n" -> "N"
      [] OTHER -> c

\* s spells 'exit', 'quit' or 'done', each letter in either case
IsExitKeywordAnyCase(s) ==
    \E k \in ExitKeywords :
        /\ Len(s) = Len(k)
        /\ \A j \in 1..Len(k) : s[j] \in {k[j], UpperChar(k[j])}

\* the line typed in round k (typed[1] answers the opening question)
RoundAnswer(k) == typed[k + 1]

\* rounds whose answer, as read so far, is an exit keyword
ExitRounds == { k \in 1..(Len(typed) - 1) : IsExitKeywordAnyCase(RoundAnswer(k)) }

SetMin(S) == CHOOSE m \in S : \A n \in S : m <= n

Last(s) == s[Len(s)]

\* start_interview has just returned to main
InterviewReturned == pc = "generate_prd"

\* main went through the whole try block and no exception was raised
Successful == pc = "done" /\ exit_code = NormalStatus /\ err = "none"

IsPrefix(s, t) == Len(s) <= Len(t) /\ SubSeq(t, 1, Len(s)) = s

\* history' is history, or history with one entry added at its end
ExtendedByOne(h, hNext) == Len(hNext) = Len(h) + 1 /\ SubSeq(hNext, 1, Len(h)) = h

RECURSIVE Offset(_, _)
\* where entry k starts in the text that lays the entries out one per line
Offset(h, k) == IF k = 1 THEN 0 ELSE Offset(h, k - 1) + Len(h[k - 1]) + 1

\* text holds the entries of h in order, one newline between neighbours, nothing else
HoldsEntriesInOrder(text, h) ==
    /\ h # <<>>
    /\ Len(text) = Offset(h, Len(h)) + Len(Last(h))
    /\ \A k \in 1..Len(h) :
          /\ SubSeq(text, Offset(h, k) + 1, Offset(h, k) + Len(h[k])) = h[k]
          /\ k < Len(h) => text[Offset(h, k) + Len(h[k]) + 1] = "\n"

\* the history is the system entry, then question and answer in turn, answers as typed
FullHistory(h) ==
    /\ Len(h) = 2 * Len(typed) + 1
    /\ h[1] = SystemEntry
    /\ \A k \in 1..Len(typed) :
          /\ h[2 * k][1] = "Agent: "
          /\ h[2 * k + 1] = <<"User: ">> \o typed[k]

(* ---------------- C1 ---------------- *)

C1_RoundsAtReturn ==
    InterviewReturned =>
        /\ rounds = IF ExitRounds = {} THEN NumRounds ELSE SetMin(ExitRounds)
        /\ chatCalls = rounds
        /\ Len(typed) = rounds + 1

C1_NothingAfterExit ==
    ExitRounds # {} => chatCalls' = chatCalls /\ typed' = typed /\ rounds' <= SetMin(ExitRounds)

\* C1: when start_interview returns, the number of completed rounds is five if no
\* round's answer was an exit keyword (any letter case), and otherwise the index of
\* the first round whose answer was one; each round made one call and read one
\* line; once such an answer is read no further call is made and no line is read.
C1_FiveRoundsUnlessExit == []C1_RoundsAtReturn /\ [][C1_NothingAfterExit]_vars

\* the loop is left in round 3 on 'Quit', after 'exit ' (not a keyword) in round 1
C1_Witness ==
    /\ InterviewReturned
    /\ rounds = 3
    /\ RoundAnswer(1) = <<"e","x","i","t"," ">>
    /\ RoundAnswer(3) = <<"Q","u","i","t">>

(* ---------------- C2 ---------------- *)

\* C2: when start_interview has returned normally, the history has
\* 2 * rounds + 2 + 1 entries, whether the loop ran out or was left early.
C2_HistoryLength ==
    (InterviewReturned \/ pc = "save_prd" \/ Successful) =>
        /\ rounds \in 1..NumRounds
        /\ Len(conversation_history) = 2 * rounds + 2 + 1

\* the loop was left early in round 2
C2_Witness ==
    /\ InterviewReturned
    /\ rounds = 2
    /\ IsExitKeywordAnyCase(Last(typed))
    /\ Len(conversation_history) = 7

(* ---------------- C3 ---------------- *)

\* C3: with GOOGLE_API_KEY unset the process never leaves configure_genai: it makes
\* no call, reads no line, opens no file, and ends with a non-zero status after
\* the diagnostic.
C3_NoKeyExitsFirst ==
    ~env.present =>
        /\ pc \in {"configure_genai", "done"}
        /\ chatCalls = 0 /\ genCalls = 0 /\ typed = <<>> /\ fileOpens = 0
        /\ prompt = <<>> /\ prd_prompt = <<>>
        /\ file \in InitialFiles
        /\ pc = "done" => /\ exit_code = MissingKeyStatus
                          /\ exit_code # NormalStatus
                          /\ console = <<"no_key", "hint">>

C3_Witness == ~env.present /\ pc = "done" /\ exit_code = MissingKeyStatus

(* ---------------- C4 ---------------- *)

\* C4 as stated: after a successful run the file exists and is non-empty,
\* whatever text was returned.
C4_AsClaimed == Successful => file.exists /\ file.content # <<>>

\* C4, amended: after a successful run the file exists and holds exactly the text
\* the document call returned, so it is non-empty exactly when that text is.
C4_FileHoldsReturnedText ==
    Successful =>
        /\ file.exists
        /\ file.content = prd_content
        /\ prd_content \in Documents
        /\ file.content # <<>> <=> prd_content # <<>>

\* a successful run whose document text was empty
C4_Witness == Successful /\ prd_content = <<>> /\ file = [exists |-> TRUE, content |-> <<>>]

(* ---------------- C5 ---------------- *)

C5_AfterFailure ==
    err = "chat" =>
        /\ pc = "done" /\ caughtAt = "main"
        /\ genCalls = 0 /\ prd_prompt = <<>>
        /\ fileOpens = 0 /\ file \in InitialFiles
        /\ chatCalls = rounds + 1
        /\ Len(conversation_history) = 2 * rounds + 3
        /\ Last(conversation_history) = <<"User: ">> \o Last(typed)

C5_FailingStep ==
    err' = "chat" =>
        /\ pc = "send_message"
        /\ chatCalls' = chatCalls + 1
        /\ conversation_history' = conversation_history

\* C5: a round makes at most one conversational call; when that call raises, the
\* exception reaches main, after which no document call is made and no file is
\* opened, and the history is as it was when the call was made.
C5_NoRetry ==
    /\ [](chatCalls <= rounds + 1)
    /\ []C5_AfterFailure
    /\ [][C5_FailingStep]_vars

\* the call of the third round failed
C5_Witness == err = "chat" /\ rounds = 2 /\ chatCalls = 3 /\ Len(conversation_history) = 7

(* ---------------- C6 ---------------- *)

ErrorReports == { k \in 1..Len(console) : console[k] \in {"error", "interrupted", "save_error"} }

\* C6 as stated: every runtime error is caught by main's outermost handlers.
C6_AsClaimed ==
    err # "none" =>
        /\ pc = "done"
        /\ caughtAt = "main"
        /\ Cardinality(ErrorReports) = 1
        /\ exit_code = NormalStatus

\* C6, amended: every runtime error raised inside main's try block is caught and
\* reported by one console message, and the process ends with status 0 whatever
\* failed; a file write failure is caught inside save_prd, every other error by
\* main's handlers.
C6_CaughtAndReported ==
    err # "none" =>
        /\ pc = "done"
        /\ exit_code = NormalStatus
        /\ caughtAt = IF err = "write" THEN "save_prd" ELSE "main"
        /\ Cardinality(ErrorReports) = 1
        /\ Last(console) = CASE err = "write" -> "save_error"
                             [] err = "interrupt" -> "interrupted"
                             [] OTHER -> "error"

\* a write failure, caught where it happened
C6_Witness == err = "write" /\ caughtAt = "save_prd" /\ pc = "done" /\ genCalls = 1

(* ---------------- C7 ---------------- *)

C7_SaveStep ==
    (pc = "save_prd" /\ err' # "interrupt") =>
        /\ conversation_history' = conversation_history
        /\ prd_content' = prd_content
        /\ pc' = "done" /\ exit_code' = NormalStatus /\ caughtAt' # "main"
        /\ \/ /\ err' = "none"
              /\ file' = [exists |-> TRUE, content |-> prd_content]
              /\ console' = Append(console, "saved")
           \/ /\ err' = "write"
              /\ console' = Append(console, "save_error")

\* C7: unless interrupted, save_prd either leaves exactly the generated text in the
\* file and prints the success message, or prints the error message; either way
\* it prints one message, returns normally and leaves history and text alone.
C7_SaveOutcome == [][C7_SaveStep]_vars

\* the write was refused and the old file is still there
C7_Witness ==
    /\ pc = "done" /\ err = "write" /\ caughtAt = "save_prd"
    /\ file = OldFile /\ fileOpens = 0
    /\ Last(console) = "save_error"
    /\ prd_content # <<>>

(* ---------------- C8 ---------------- *)

\* the part of the document prompt between the two fixed pieces of the template
EmbeddedTranscript == SubSeq(prd_prompt, 2, Len(prd_prompt) - 1)

\* C8: at most one document call is made in a run, and only after the interview
\* returned normally; the transcript in its prompt is the whole history of that
\* moment, entry by entry in append order (system entry, each question, each
\* answer, an exit keyword included); the file is opened for writing at most once,
\* never before that call, and holds only text the call returned.
C8_OneCallOnFullHistory ==
    /\ genCalls <= 1
    /\ fileOpens <= 1
    /\ (pc = "save_prd" \/ Successful) => genCalls = 1
    /\ genCalls = 0 => prd_prompt = <<>> /\ fileOpens = 0
    /\ genCalls = 1 =>
          /\ err \notin {"chat", "eof"}
          /\ rounds \in 1..NumRounds
          /\ chatCalls = rounds /\ Len(typed) = rounds + 1
          /\ rounds = NumRounds \/ IsExitKeywordAnyCase(Last(typed))
          /\ FullHistory(conversation_history)
          /\ prd_prompt[1] = Head(PrdHead) /\ Last(prd_prompt) = Last(PrdTail)
          /\ HoldsEntriesInOrder(EmbeddedTranscript, conversation_history)
    /\ fileOpens = 0 => file \in InitialFiles
    /\ fileOpens = 1 =>
          /\ file.exists
          /\ IsPrefix(file.content, prd_content)
          /\ err = "none" => file.content = prd_content

\* the document call was made after an interview left in round 2 on 'DONE'
C8_Witness ==
    /\ pc = "save_prd" /\ genCalls = 1
    /\ rounds = 2
    /\ Last(typed) = <<"D","O","N","E">>
    /\ Last(conversation_history) = <<"User: ", "D","O","N","E">>

(* ---------------- C9 ---------------- *)

C9_AppendOnly ==
    \/ conversation_history' = conversation_history
    \/ ExtendedByOne(conversation_history, conversation_history')

C9_RecordedBeforeContinuing ==
    /\ pc = "read_initial" =>
          /\ Last(conversation_history) = <<"Agent: ">> \o initial_question
          /\ Len(conversation_history) = 2 /\ typed = <<>>
    /\ pc = "read_answer" =>
          /\ Last(conversation_history) = <<"Agent: ">> \o question
          /\ Len(conversation_history) = 2 * Len(typed) + 2
    /\ pc \in {"loop", "send_message", "exit_check", "generate_prd"} =>
          /\ Last(conversation_history) = <<"User: ">> \o Last(typed)
          /\ Len(conversation_history) = 2 * Len(typed) + 1

\* C9: every step leaves the history as it is or adds one entry at its end; a
\* question is in the history before the next line is read, an answer before the
\* next conversational call, the exit check and the document call.
C9_HistoryAppendOnly == []C9_RecordedBeforeContinuing /\ [][C9_AppendOnly]_vars

\* about to read the answer of round 3, its question already recorded
C9_Witness ==
    /\ pc = "read_answer"
    /\ Len(typed) = 3
    /\ Len(conversation_history) = 8
    /\ Last(conversation_history) = <<"Agent: ">> \o question

(* ---------------- C10 ---------------- *)

C10_AtLeastOneRound ==
    /\ (typed # <<>> /\ err # "interrupt"
          /\ pc \notin {"record_initial", "loop", "send_message"}) => chatCalls >= 1
    /\ (InterviewReturned \/ genCalls > 0) => rounds >= 1 /\ chatCalls >= 1

C10_FirstAnswerStep ==
    /\ pc = "record_initial" => pc' = "loop" \/ err' = "interrupt"
    /\ (pc = "loop" /\ Len(typed) = 1) => pc' = "send_message" \/ err' = "interrupt"

\* C10: the answer to the opening question is never checked against the exit
\* keywords: once it is recorded, the next statement (short of a keyboard
\* interruption) is the conversational call of round 1, so a run whose interview
\* returns has completed at least one round.
C10_NoExitCheckOnFirstAnswer == []C10_AtLeastOneRound /\ [][C10_FirstAnswerStep]_vars

\* the first answer was 'exit' and the question of round 1 was generated all the same
C10_Witness ==
    /\ pc = "show_question"
    /\ typed = << <<"e","x","i","t">> >>
    /\ chatCalls = 1

====
